---- MODULE Spec2Model ----
(***************************************************************************)
(* Model of api/agent.py: the /api/login throttle, the /api/agent          *)
(* dispatcher and the project pipeline behind manage_full_stack_project.   *)
(*                                                                         *)
(* Text is modelled as a sequence of tokens (strings).  Time is counted in *)
(* minutes.                                                                *)
(***************************************************************************)
EXTENDS Integers, Sequences, FiniteSets, TLC

\* ------------------------------------------------------------------------
\* Bounds of the model
\* ------------------------------------------------------------------------
MaxTime == 7
MaxCount == 6
MaxToolCalls == 2
ProseWords == 25000
MaxBlocks == 2
NThreads == 2

\* ------------------------------------------------------------------------
\* Program constants (agent.py:26-31)
\* ------------------------------------------------------------------------
MAX_API_TOKENS == 50000
COOLDOWN_PERIOD_MINUTES == 5
MAX_ATTEMPTS == 5

\* Python's None, as a password / environment value and as a timestamp.
None == "<None>"
NoTime == -1

Identities == {"10.0.0.1", "10.0.0.2"}
Passwords == {"secret", "wrong", None}

VARIABLES
    env,              \* os.environ: WEBSITE_PASSWORD, GITHUB_TOKEN
    login_attempts,   \* dict: identity -> [count, cooldown_until]
    now,              \* datetime.now(), in minutes
    API_TOKENS_USED,  \* the global usage counter
    pc,               \* "idle", or "agent" while an AgentExecutor runs
    toolCalls,        \* tool invocations made by the running executor
    resp,             \* the last HTTP response sent
    calls,            \* provider calls made while handling the last request
    tool,             \* the running executor's last manage_full_stack_project call
    fails,            \* history: 401 answers per identity since its last 200
    invocations,      \* agent requests running in threads of their own
    requests          \* login requests running in threads of their own

vars == <<env, login_attempts, now, API_TOKENS_USED, pc, toolCalls, resp,
          calls, tool, fails, invocations, requests>>

\* ------------------------------------------------------------------------
\* Login throttle (agent.py:204-229)
\* ------------------------------------------------------------------------

\* request.json of a login request: a JSON object with an optional
\* "password", or a body that is not a JSON object (data.get raises).
LoginBodies ==
    {[object |-> TRUE, password |-> p] : p \in Passwords}
        \cup {[object |-> FALSE, password |-> None]}

\* agent.py:212-214: the identity has a record whose cooldown_until is set
\* and lies after the clock value t.
InCooldown(la, ip, t) ==
    /\ ip \in DOMAIN la
    /\ la[ip].cooldown_until # NoTime
    /\ t < la[ip].cooldown_until

\* agent.py:217
PasswordMatches(password_attempt) == password_attempt = env.WEBSITE_PASSWORD

\* Mutant of ClearRecord: a success lifts the cooldown but keeps the count.
ClearRecord_KeepCount(la, ip) ==
    IF ip \in DOMAIN la THEN [la EXCEPT ![ip].cooldown_until = NoTime] ELSE la

\* Mutant of ClearRecord: a success zeroes the record and keeps it.
ClearRecord_ZeroCount(la, ip) ==
    IF ip \in DOMAIN la
    THEN [la EXCEPT ![ip] = [count |-> 0, cooldown_until |-> NoTime]]
    ELSE la

\* agent.py:218-219
ClearRecord(la, ip) == [k \in DOMAIN la \ {ip} |-> la[k]]

\* Mutant of RecordFailure: the threshold is compared with > for >=.
RecordFailure_OffByOne(la, ip, t) ==
    LET la1 == IF ip \in DOMAIN la
               THEN la
               ELSE la @@ (ip :> [count |-> 0, cooldown_until |-> NoTime])
        la2 == [la1 EXCEPT ![ip].count = @ + 1]
    IN  IF la2[ip].count > MAX_ATTEMPTS
        THEN [la2 EXCEPT ![ip].cooldown_until = t + COOLDOWN_PERIOD_MINUTES]
        ELSE la2

\* Mutant of RecordFailure: the threshold is compared with = for >=.
RecordFailure_Exact(la, ip, t) ==
    LET la1 == IF ip \in DOMAIN la
               THEN la
               ELSE la @@ (ip :> [count |-> 0, cooldown_until |-> NoTime])
        la2 == [la1 EXCEPT ![ip].count = @ + 1]
    IN  IF la2[ip].count = MAX_ATTEMPTS
        THEN [la2 EXCEPT ![ip].cooldown_until = t + COOLDOWN_PERIOD_MINUTES]
        ELSE la2

\* agent.py:222-225, t being datetime.now() as read on line 225
RecordFailure(la, ip, t) ==
    LET la1 == IF ip \in DOMAIN la
               THEN la
               ELSE la @@ (ip :> [count |-> 0, cooldown_until |-> NoTime])
        la2 == [la1 EXCEPT ![ip].count = @ + 1]
    IN  IF la2[ip].count >= MAX_ATTEMPTS
        THEN [la2 EXCEPT ![ip].cooldown_until = t + COOLDOWN_PERIOD_MINUTES]
        ELSE la2

\* Mutant of LoginStatus: the password is compared before the cooldown is
\* looked at.
LoginStatus_PasswordFirst(la, ip, data, t) ==
    IF ~data.object THEN 500
    ELSE IF PasswordMatches(data.password) THEN 200
    ELSE IF InCooldown(la, ip, t) THEN 429
    ELSE 401

\* The status login_endpoint answers with (agent.py:206-229).
LoginStatus(la, ip, data, t) ==
    IF ~data.object THEN 500
    ELSE IF InCooldown(la, ip, t) THEN 429
    ELSE IF PasswordMatches(data.password) THEN 200
    ELSE 401

LoginBody(status) ==
    CASE status = 200 -> [key |-> "success", text |-> <<"true">>]
      [] status = 401 -> [key |-> "message", text |-> <<"Incorrect password">>]
      [] status = 429 -> [key |-> "message",
                          text |-> <<"Too many failed attempts. Try again later.">>]
      [] OTHER        -> [key |-> "error", text |-> <<"'NoneType' object has no attribute 'get'">>]

NoCalls == [llm |-> 0, create_repo |-> 0, clone |-> 0, commit |-> 0, push |-> 0]

\* Mutant of login_endpoint: an attempt refused with 429 restarts the
\* cooldown.
login_endpoint_Extend429(ip, data, d) ==
    /\ pc = "idle"
    /\ now + d <= MaxTime
    /\ LET status == LoginStatus(login_attempts, ip, data, now) IN
       /\ status = 401 =>
            (ip \in DOMAIN login_attempts => login_attempts[ip].count < MaxCount)
       /\ status # 401 => d = 0
       /\ login_attempts' =
            CASE status = 200 -> ClearRecord(login_attempts, ip)
              [] status = 401 -> RecordFailure(login_attempts, ip, now + d)
              [] status = 429 ->
                    [login_attempts EXCEPT
                        ![ip].cooldown_until = now + COOLDOWN_PERIOD_MINUTES]
              [] OTHER        -> login_attempts
       /\ fails' =
            CASE status = 200 -> [fails EXCEPT ![ip] = 0]
              [] status = 401 -> [fails EXCEPT ![ip] = @ + 1]
              [] OTHER        -> fails
       /\ resp' = [endpoint |-> "login", ip |-> ip, status |-> status,
                   key |-> LoginBody(status).key, text |-> LoginBody(status).text]
    /\ now' = now + d
    /\ calls' = NoCalls
    /\ UNCHANGED <<invocations, requests, env, API_TOKENS_USED, pc, toolCalls, tool>>

\* POST /api/login from identity ip with body data.  d is the time that
\* passes between the clock read of line 214 and that of line 225.
login_endpoint(ip, data, d) ==
    /\ pc = "idle"
    /\ now + d <= MaxTime
    /\ LET status == LoginStatus(login_attempts, ip, data, now) IN
       /\ status = 401 =>
            (ip \in DOMAIN login_attempts => login_attempts[ip].count < MaxCount)
       /\ status # 401 => d = 0
       /\ login_attempts' =
            CASE status = 200 -> ClearRecord(login_attempts, ip)
              [] status = 401 -> RecordFailure(login_attempts, ip, now + d)
              [] OTHER        -> login_attempts
       /\ fails' =
            CASE status = 200 -> [fails EXCEPT ![ip] = 0]
              [] status = 401 -> [fails EXCEPT ![ip] = @ + 1]
              [] OTHER        -> fails
       /\ resp' = [endpoint |-> "login", ip |-> ip, status |-> status,
                   key |-> LoginBody(status).key, text |-> LoginBody(status).text]
    /\ now' = now + d
    /\ calls' = NoCalls
    /\ UNCHANGED <<invocations, requests, env, API_TOKENS_USED, pc, toolCalls, tool>>

\* Time passes between requests.
Tick ==
    /\ pc = "idle"
    /\ now < MaxTime
    /\ now' = now + 1
    /\ UNCHANGED <<invocations, requests, env, login_attempts, API_TOKENS_USED, pc, toolCalls, resp,
                   calls, tool, fails>>

\* ------------------------------------------------------------------------
\* Text: a string is a sequence of tokens.  Hash3 is the header mark "###"
\* and Fence the mark of three backquotes, " " and "\n" are whitespace, "." and "/" punctuate
\* paths, Prose stands for a long run of plain words separated by single
\* spaces, and every other token is a word of [A-Za-z0-9_]+ unless listed
\* in Punct.
\* ------------------------------------------------------------------------
Hash3 == "###"
Fence == "<fence>"
Prose == "<prose>"
Punct == {"'", "',", ":", "-"}
IsWS(t) == t \in {" ", "\n"}
IsWord(t) == ~IsWS(t) /\ t \notin ({Hash3, Fence, ".", "/", Prose} \cup Punct)
IsPathChar(t) == IsWord(t) \/ t \in {".", "/"}

Min(S) == CHOOSE x \in S : \A y \in S : x <= y

\* str.split() followed by len(): the number of maximal runs of
\* non-whitespace, a Prose token adding its inner words to the run it is in.
RECURSIVE WordsFrom(_, _, _)
WordsFrom(s, i, inRun) ==
    IF i > Len(s) THEN 0
    ELSE IF IsWS(s[i]) THEN WordsFrom(s, i + 1, FALSE)
    ELSE (IF inRun THEN 0 ELSE 1)
         + (IF s[i] = Prose THEN ProseWords - 1 ELSE 0)
         + WordsFrom(s, i + 1, TRUE)

WordCount(s) == WordsFrom(s, 1, FALSE)

\* Mutant of Strip: only the leading white space is removed (lstrip).
Strip_Leading(s) ==
    LET keep == {i \in 1..Len(s) : ~IsWS(s[i])} IN
    IF keep = {} THEN <<>> ELSE SubSeq(s, Min(keep), Len(s))

\* str.strip()
Strip(s) ==
    LET keep == {i \in 1..Len(s) : ~IsWS(s[i])} IN
    IF keep = {} THEN <<>>
    ELSE SubSeq(s, Min(keep), Min({j \in keep : \A k \in keep : k <= j}))

\* Python's  marker in s  for a one-token marker
In(marker, s) == \E i \in 1..Len(s) : s[i] = marker

\* os.path.join(a, b)
OsPathJoin(a, b) ==
    IF b # <<>> /\ b[1] = "/" THEN b
    ELSE IF a = <<>> \/ a[Len(a)] = "/" THEN a \o b
    ELSE a \o <<"/">> \o b

\* First index from i on whose token is not in the class (Len(s)+1 if none).
EndOfWS(s, i) == Min({k \in i..(Len(s) + 1) : k = Len(s) + 1 \/ ~IsWS(s[k])})
EndOfPath(s, i) == Min({k \in i..(Len(s) + 1) : k = Len(s) + 1 \/ ~IsPathChar(s[k])})
EndOfWord(s, i) == Min({k \in i..(Len(s) + 1) : k = Len(s) + 1 \/ ~IsWord(s[k])})
NextFence(s, i) == Min({k \in i..(Len(s) + 1) : k = Len(s) + 1 \/ s[k] = Fence})

\* [\w\d\./]+\.[\w\d]+ matches the whole run s[a..b-1]
IsFilePath(s, a, b) ==
    \E k \in (a + 1)..(b - 2) :
        /\ s[k] = "."
        /\ \A m \in (k + 1)..(b - 1) : IsWord(s[m])

\* One match of file_regex (agent.py:118) starting at index i:
\*   ###\s+([\w\d\./]+\.[\w\d]+)\s+FENCE[\w\d]*\n(.*?)FENCE   with re.DOTALL
MatchAt(s, i) ==
    LET n == Len(s)
        a == EndOfWS(s, i + 1)      \* start of the path
        b == EndOfPath(s, a)        \* end of the path run
        c == EndOfWS(s, b)          \* the opening fence
        e == EndOfWord(s, c + 1)    \* end of the language hint
        g == NextFence(s, e + 1)    \* the closing fence
        ok == /\ i <= n /\ s[i] = Hash3
              /\ a > i + 1 /\ a <= n
              /\ IsFilePath(s, a, b)
              /\ c > b /\ c <= n /\ s[c] = Fence
              /\ e <= n /\ s[e] = "\n"
              /\ g <= n
    IN  IF ok
        THEN [ok |-> TRUE, filename |-> SubSeq(s, a, b - 1),
              code_block |-> SubSeq(s, e + 1, g - 1), end |-> g + 1]
        ELSE [ok |-> FALSE, filename |-> <<>>, code_block |-> <<>>, end |-> i + 1]

\* re.findall(file_regex, generated_content, re.DOTALL): the leftmost
\* non-overlapping matches, as (filename, code_block) pairs.
RECURSIVE FindAllFrom(_, _)
FindAllFrom(s, i) ==
    IF i > Len(s) THEN <<>>
    ELSE LET m == MatchAt(s, i) IN
         IF m.ok
         THEN <<[filename |-> m.filename, code_block |-> m.code_block]>>
                  \o FindAllFrom(s, m.end)
         ELSE FindAllFrom(s, i + 1)

FindAll(s) == FindAllFrom(s, 1)

\* ------------------------------------------------------------------------
\* Budget (agent.py:26-41)
\* ------------------------------------------------------------------------

\* Mutant of check_api_limit: the limit is compared with = for >=.
check_api_limit_Equal(used) == used = MAX_API_TOKENS

\* agent.py:37-41
check_api_limit(used) == used >= MAX_API_TOKENS

\* Mutant of RecordCost: the cost is assigned with = for +=.
RecordCost_Assign(used, words) == words

\* API_TOKENS_USED += <word count>   (agent.py:116, 183)
RecordCost(used, words) == used + words

\* ------------------------------------------------------------------------
\* Inputs of the pipeline: what the model, GitHub and git answer
\* ------------------------------------------------------------------------

\* str(e) of an exception raised by a provider
ExcTexts == {<<"timed", " ", "out">>, <<"Internal", " ", "Server", " ", "Error">>}

\* Outcomes of llm.invoke(...): it raises, or returns a reply with .content
Raised(e) == [raised |-> TRUE, content |-> <<>>, error |-> e]
Reply(c) == [raised |-> FALSE, content |-> c, error |-> <<>>]

LangReplies ==
    { <<"Python", " ", "with", " ", "Flask">>,
      <<" ", "Node", ".", "js", " ", "with", " ", "Express", "\n">>,
      <<Prose, "\n", Prose>> }

GenReplies ==
    { <<"Sorry", ":", " ", "no", " ", "code", " ", "this", " ", "time">>,
      <<Hash3, " ", "index", ".", "html", "\n", Fence, "html", "\n",
        "hi", "\n", Fence>>,
      <<Hash3, " ", "app", ".", "py", "\n", Fence, " ", "\n", "x", " ", Fence>>,
      <<"Files", ":", "\n",
        Hash3, " ", "src", "/", "app", ".", "js", "\n", Fence, "js", "\n",
        " ", "run", " ", "it", "\n", Fence, "\n",
        Hash3, "\n", "README", ".", "md", " ", Fence, "\n", Prose, " ", Prose, Fence>> }

\* Replies made of blocks in the format the prompt asks for (agent.py:99-110):
\* a header with a path, white space, a fence with an optional language
\* hint, a newline, the body (lead, core and trail, lead and trail being
\* white space) and the closing fence.
BlockPaths ==
    { <<"index", ".", "html">>,
      <<"src", "/", "app", ".", "js">>,
      <<".", "/", "index", ".", "html">>,
      <<".", ".", "/", "x", ".", "py">>,
      <<"/", "etc", "/", "x", ".", "py">> }
BlockShapes ==
    { [sep |-> <<"\n">>, hint |-> <<>>,
       lead |-> <<>>, core |-> <<"a">>, trail |-> <<"\n">>],
      [sep |-> <<" ", "\n">>, hint |-> <<"js">>,
       lead |-> <<" ", "\n">>, core |-> <<"b", "\n", " ", "c">>, trail |-> <<"\n", " ">>],
      [sep |-> <<"\n">>, hint |-> <<"py">>,
       lead |-> <<"\n">>, core |-> <<>>, trail |-> <<>>] }
Blocks ==
    { [path |-> p, sep |-> f.sep, hint |-> f.hint,
       lead |-> f.lead, core |-> f.core, trail |-> f.trail] :
          p \in BlockPaths, f \in BlockShapes }
BlockText(b) ==
    <<Hash3, " ">> \o b.path \o b.sep \o <<Fence>> \o b.hint \o <<"\n">>
        \o b.lead \o b.core \o b.trail \o <<Fence, "\n">>

RECURSIVE JoinBlocks(_)
JoinBlocks(bs) ==
    IF bs = <<>> THEN <<>> ELSE BlockText(Head(bs)) \o JoinBlocks(Tail(bs))

BlockSeqs == UNION {[1..n -> Blocks] : n \in 0..MaxBlocks}
BlockReplies == {JoinBlocks(bs) : bs \in BlockSeqs}
BlockOutcomes == {Reply(c) : c \in GenReplies \cup BlockReplies}

LangOutcomes == {Raised(e) : e \in ExcTexts} \cup {Reply(c) : c \in LangReplies}
GenOutcomes == {Raised(e) : e \in ExcTexts} \cup {Reply(c) : c \in GenReplies}

ProjectNames == {<<"shop">>, <<"Error", "Log">>}
Goal == <<"a", " ", "web", " ", "shop">>

\* os.getcwd() of the server process, taken as fixed
Cwd == <<"/", "srv">>

\* ------------------------------------------------------------------------
\* The strings the tools return
\* ------------------------------------------------------------------------
MsgNoToken ==
    <<"Error", ": GitHub token not found. Please set the GITHUB_TOKEN environment variable.">>
MsgCloned(repo_path) == <<"Repository created and cloned to: ">> \o repo_path
MsgCreateFailed(e) == <<"Error", " creating and cloning repository: ">> \o e
MsgGenLimit ==
    <<"Warning: API usage limit reached. Stopping project generation to prevent charges.">>
\* Mutant of MsgNoParse: the message is written without the capital.
MsgNoParse_LowerCase == <<"error", ": Could not parse generated code from the model.">>
MsgNoParse == <<"Error", ": Could not parse generated code from the model.">>
MsgWritten ==
    <<"Frontend and backend code have been generated and written to the repository.">>
MsgGenFailed(e) == <<"An error occurred while generating and writing files: ">> \o e
MsgPushed == <<"Changes committed and pushed successfully.">>
MsgCommitFailed(e) == <<"Error", " committing and pushing changes: ">> \o e
MsgLimit == <<"Warning: API usage limit reached. Cannot start new projects.">>
MsgSuccess(project_name, language_and_stack) ==
    <<"Full-stack project '">> \o project_name \o <<"' successfully created in ">>
        \o language_and_stack
        \o <<", with code generated and pushed to GitHub. The repository is ready for deployment.">>
MsgManageFailed(e) ==
    <<"An error occurred while managing the full-stack project: ">> \o e
MsgApology ==
    <<"I'm sorry, I have reached my API usage limit. I cannot create a new project at this time. Please try again later.">>
MsgPromptRequired == <<"Prompt is required.">>

\* ------------------------------------------------------------------------
\* The tools (agent.py:43-153), as functions of their arguments and of what
\* the providers answer
\* ------------------------------------------------------------------------

\* agent.py:54-71.  outcome: "ok", "repo_fails" (create_repo raises) or
\* "clone_fails" (git clone exits non-zero); e is the exception text.
create_github_repo_and_clone(repo_name, outcome, e) ==
    IF env.GITHUB_TOKEN = None
    THEN [ret |-> MsgNoToken, ok |-> FALSE, create_repo |-> 0, clone |-> 0]
    ELSE IF outcome = "repo_fails"
    THEN [ret |-> MsgCreateFailed(e), ok |-> FALSE, create_repo |-> 1, clone |-> 0]
    ELSE IF outcome = "clone_fails"
    THEN [ret |-> MsgCreateFailed(e), ok |-> FALSE, create_repo |-> 1, clone |-> 1]
    ELSE [ret |-> MsgCloned(OsPathJoin(Cwd, repo_name)), ok |-> TRUE,
          create_repo |-> 1, clone |-> 1]

\* agent.py:124-129: the files written for the first n matches
WriteFiles(repo_path, matches, n) ==
    [k \in 1..n |->
        [path |-> OsPathJoin(repo_path, matches[k].filename),
         content |-> Strip(matches[k].code_block)]]

\* The segments of a path, split at "/"
RECURSIVE SegmentsFrom(_, _, _)
SegmentsFrom(p, i, cur) ==
    IF i > Len(p) THEN <<cur>>
    ELSE IF p[i] = "/" THEN <<cur>> \o SegmentsFrom(p, i + 1, <<>>)
    ELSE SegmentsFrom(p, i + 1, Append(cur, p[i]))

\* Path resolution from the root: empty and "." segments stay, ".." goes
\* up one directory (no symbolic links)
RECURSIVE ResolveFrom(_, _, _)
ResolveFrom(segs, i, acc) ==
    IF i > Len(segs) THEN acc
    ELSE IF segs[i] = <<>> \/ segs[i] = <<".">>
    THEN ResolveFrom(segs, i + 1, acc)
    ELSE IF segs[i] = <<".", ".">>
    THEN ResolveFrom(segs, i + 1,
                     IF acc = <<>> THEN acc ELSE SubSeq(acc, 1, Len(acc) - 1))
    ELSE ResolveFrom(segs, i + 1, Append(acc, segs[i]))

\* The file that open(path) names, a relative path starting at the
\* working directory of the process (agent.py:128)
RealPath(path) == ResolveFrom(SegmentsFrom(OsPathJoin(Cwd, path), 1, <<>>), 1, <<>>)

\* Mutant of WriteFile: the file is opened with 'a' for 'w'.
WriteFile_Append(fs, path, content) ==
    LET f == RealPath(path) IN
    [x \in DOMAIN fs \cup {f} |->
        IF x = f
        THEN (IF f \in DOMAIN fs THEN fs[f] ELSE <<>>) \o content
        ELSE fs[x]]

\* with open(file_path, 'w') as f: f.write(...)   (agent.py:128-129).
\* fs maps each file to its content.
WriteFile(fs, path, content) ==
    LET f == RealPath(path) IN
    [x \in DOMAIN fs \cup {f} |-> IF x = f THEN content ELSE fs[x]]

\* The files after the loop of agent.py:124-129 has made the first n writes
RECURSIVE FilesAfter(_, _)
FilesAfter(written, n) ==
    IF n = 0 THEN <<>>
    ELSE WriteFile(FilesAfter(written, n - 1), written[n].path, written[n].content)

\* agent.py:84-134.  gen is what llm.invoke answers; failAt = k > 0 makes
\* makedirs/open/write raise at the k-th parsed file, with text e.
\* how: "budget", "exception", "noparse" or "written".
generate_and_write_code(used, repo_path, gen, failAt, e) ==
    IF check_api_limit(used)
    THEN [ret |-> MsgGenLimit, used |-> used, written |-> <<>>,
          how |-> "budget", llm |-> 0]
    ELSE IF gen.raised
    THEN [ret |-> MsgGenFailed(gen.error), used |-> used, written |-> <<>>,
          how |-> "exception", llm |-> 1]
    ELSE LET used1 == RecordCost(used, WordCount(gen.content))
             matches == FindAll(gen.content)
         IN  IF matches = <<>>
             THEN [ret |-> MsgNoParse, used |-> used1, written |-> <<>>,
                   how |-> "noparse", llm |-> 1]
             ELSE IF failAt \in 1..Len(matches)
             THEN [ret |-> MsgGenFailed(e), used |-> used1,
                   written |-> WriteFiles(repo_path, matches, failAt - 1),
                   how |-> "exception", llm |-> 1]
             ELSE [ret |-> MsgWritten, used |-> used1,
                   written |-> WriteFiles(repo_path, matches, Len(matches)),
                   how |-> "written", llm |-> 1]

\* agent.py:146-153.  failStep: "none", or the call that raises:
\* "chdir", "add", "commit" or "push".
CommitFailSteps == {"none", "chdir", "add", "commit", "push"}
commit_and_push(repo_path, failStep, e) ==
    IF failStep = "none"
    THEN [ret |-> MsgPushed, ok |-> TRUE, commit |-> 1, push |-> 1]
    ELSE [ret |-> MsgCommitFailed(e), ok |-> FALSE,
          commit |-> IF failStep \in {"commit", "push"} THEN 1 ELSE 0,
          push |-> IF failStep = "push" THEN 1 ELSE 0]

\* ------------------------------------------------------------------------
\* manage_full_stack_project (agent.py:155-198), one action per step of the
\* pipeline.  pc is the step the running invocation is at.
\* ------------------------------------------------------------------------

\* The words of language_prompt (agent.py:180) before and after '{goal}',
PromptHeadWords == 4
PromptTailWords == 38
LanguagePromptWords(goal) ==
    PromptHeadWords + WordCount(<<"'">> \o goal \o <<"',">>) + PromptTailWords

NoTool ==
    [project_name |-> <<>>, repo_path |-> <<>>, language_and_stack |-> <<>>,
     write_status |-> <<>>, commit_status |-> <<>>, ret |-> <<>>, written |-> <<>>,
     generated_content |-> <<>>,
     created |-> "-", generated |-> "-", committed |-> "-"]

AddCalls(c, llm, create_repo, clone, commit, push) ==
    [llm |-> c.llm + llm, create_repo |-> c.create_repo + create_repo,
     clone |-> c.clone + clone, commit |-> c.commit + commit,
     push |-> c.push + push]

\* The executor's model call asks for the tool; agent.py:169-172
manage_full_stack_project(project_name) ==
    /\ pc = "agent"
    /\ toolCalls < MaxToolCalls
    /\ toolCalls' = toolCalls + 1
    /\ calls' = AddCalls(calls, 1, 0, 0, 0, 0)
    /\ IF check_api_limit(API_TOKENS_USED)
       THEN /\ tool' = [NoTool EXCEPT !.project_name = project_name, !.ret = MsgLimit]
            /\ pc' = "agent"
       ELSE /\ tool' = [NoTool EXCEPT !.project_name = project_name]
            /\ pc' = "create"
    /\ UNCHANGED <<invocations, requests, env, login_attempts, now, API_TOKENS_USED, resp, fails>>

\* agent.py:175-178
manage_create(outcome, e) ==
    /\ pc = "create"
    /\ LET r == create_github_repo_and_clone(tool.project_name, outcome, e) IN
       /\ calls' = AddCalls(calls, 0, r.create_repo, r.clone, 0, 0)
       /\ IF In("Error", r.ret)
          THEN /\ tool' = [tool EXCEPT !.repo_path = r.ret, !.ret = r.ret,
                                       !.created = IF r.ok THEN "ok" ELSE "failed"]
               /\ pc' = "agent"
          ELSE /\ tool' = [tool EXCEPT !.repo_path = r.ret,
                                       !.created = IF r.ok THEN "ok" ELSE "failed"]
               /\ pc' = "language"
    /\ UNCHANGED <<invocations, requests, env, login_attempts, now, API_TOKENS_USED, toolCalls, resp, fails>>

\* agent.py:180-184, and 197-198 when llm.invoke raises
manage_language(lang) ==
    /\ pc = "language"
    /\ calls' = AddCalls(calls, 1, 0, 0, 0, 0)
    /\ IF lang.raised
       THEN /\ tool' = [tool EXCEPT !.ret = MsgManageFailed(lang.error)]
            /\ pc' = "agent"
            /\ UNCHANGED API_TOKENS_USED
       ELSE /\ API_TOKENS_USED' =
                  RecordCost(API_TOKENS_USED,
                             WordCount(lang.content) + LanguagePromptWords(Goal))
            /\ tool' = [tool EXCEPT !.language_and_stack = Strip(lang.content)]
            /\ pc' = "generate"
    /\ UNCHANGED <<invocations, requests, env, login_attempts, now, toolCalls, resp, fails>>

\* agent.py:186-188 with the whole of generate_and_write_code
manage_generate(gen, failAt, e) ==
    /\ pc = "generate"
    /\ LET r == generate_and_write_code(API_TOKENS_USED, tool.repo_path, gen, failAt, e)
           content == IF r.llm = 1 /\ ~gen.raised THEN gen.content ELSE <<>>
       IN
       /\ API_TOKENS_USED' = r.used
       /\ calls' = AddCalls(calls, r.llm, 0, 0, 0, 0)
       /\ IF In("Error", r.ret)
          THEN /\ tool' = [tool EXCEPT !.write_status = r.ret, !.ret = r.ret,
                                       !.written = r.written, !.generated = r.how,
                                       !.generated_content = content]
               /\ pc' = "agent"
          ELSE /\ tool' = [tool EXCEPT !.write_status = r.ret,
                                       !.written = r.written, !.generated = r.how,
                                       !.generated_content = content]
               /\ pc' = "commit"
    /\ UNCHANGED <<invocations, requests, env, login_attempts, now, toolCalls, resp, fails>>

\* agent.py:190-195 with the whole of commit_and_push
manage_commit(failStep, e) ==
    /\ pc = "commit"
    /\ LET r == commit_and_push(tool.repo_path, failStep, e) IN
       /\ calls' = AddCalls(calls, 0, 0, 0, r.commit, r.push)
       /\ tool' = [tool EXCEPT
                     !.committed = IF r.ok THEN "ok" ELSE "failed",
                     !.commit_status = r.ret,
                     !.ret = IF In("Error", r.ret)
                             THEN r.ret
                             ELSE MsgSuccess(tool.project_name, tool.language_and_stack)]
    /\ pc' = "agent"
    /\ UNCHANGED <<invocations, requests, env, login_attempts, now, API_TOKENS_USED, toolCalls, resp, fails>>

\* ------------------------------------------------------------------------
\* Agent dispatcher (agent.py:231-263)
\* ------------------------------------------------------------------------
Modes == {"agent", "chat", "plan", None}
Prompts == {<<>>, <<"hello">>}
ChatReplies == {<<"Hi", " ", "there", "\n">>}
ChatOutcomes == {Raised(e) : e \in ExcTexts} \cup {Reply(c) : c \in ChatReplies}

\* request.json of an agent request: an object with optional "prompt" and
\* "mode", or a body that is not a JSON object.
AgentBodies ==
    {[object |-> TRUE, has_prompt |-> TRUE, prompt |-> p, mode |-> m] :
        p \in Prompts, m \in Modes}
    \cup {[object |-> TRUE, has_prompt |-> FALSE, prompt |-> <<>>, mode |-> m] :
        m \in Modes}
    \cup {[object |-> FALSE, has_prompt |-> FALSE, prompt |-> <<>>, mode |-> None]}

\* Mutant of NotPrompt: only a missing prompt is refused, not an empty one.
NotPrompt_MissingOnly(data) == ~data.has_prompt

\* agent.py:238  not prompt
NotPrompt(data) == ~data.has_prompt \/ data.prompt = <<>>

AgentResp(status, key, text) ==
    [endpoint |-> "agent", ip |-> "-", status |-> status, key |-> key, text |-> text]

\* Mutant of Route: the budget is checked before the mode is looked at.
Route_LimitFirst(data, used) ==
    IF ~data.object THEN "bad_body"
    ELSE IF NotPrompt(data) THEN "no_prompt"
    ELSE IF check_api_limit(used) THEN "apology"
    ELSE IF data.mode = "agent" THEN "executor"
    ELSE IF data.mode = "chat" THEN "chat"
    ELSE "none"

\* The branch agent_endpoint takes (agent.py:233-258)
Route(data, used) ==
    IF ~data.object THEN "bad_body"
    ELSE IF NotPrompt(data) THEN "no_prompt"
    ELSE IF data.mode = "agent"
         THEN IF check_api_limit(used) THEN "apology" ELSE "executor"
    ELSE IF data.mode = "chat" THEN "chat"
    ELSE "none"

\* POST /api/agent up to the point where the AgentExecutor is started
\* (agent.py:233-253), or to the response on every other path.  chat is
\* what llm.invoke(prompt) answers on line 259.
agent_endpoint(data, chat) ==
    /\ pc = "idle"
    /\ LET route == Route(data, API_TOKENS_USED) IN
       /\ calls' = IF route = "chat" THEN AddCalls(NoCalls, 1, 0, 0, 0, 0) ELSE NoCalls
       /\ pc' = IF route = "executor" THEN "agent" ELSE "idle"
       /\ tool' = IF route = "executor" THEN NoTool ELSE tool
       /\ resp' =
            CASE route = "bad_body" ->
                    AgentResp(500, "error", <<"'NoneType' object has no attribute 'get'">>)
              [] route = "no_prompt" -> AgentResp(400, "error", MsgPromptRequired)
              [] route = "apology" -> AgentResp(200, "response", MsgApology)
              [] route = "executor" -> resp
              [] route = "chat" ->
                    IF chat.raised
                    THEN AgentResp(500, "error", chat.error)
                    ELSE AgentResp(200, "response", chat.content)
              \* the view returns None: Flask answers 500 with its own page
              [] OTHER -> AgentResp(500, "html", <<"Internal Server Error">>)
    /\ UNCHANGED <<invocations, requests, env, login_attempts, now, API_TOKENS_USED, toolCalls, fails>>

\* agent.py:255-256: the executor's last model call gives the final answer.
\* tool describes the invocations of the running executor only.
AgentOutputs == {<<"Done">>}
executor_finish(output) ==
    /\ pc = "agent"
    /\ calls' = AddCalls(calls, 1, 0, 0, 0, 0)
    /\ resp' = AgentResp(200, "response", output)
    /\ pc' = "idle"
    /\ tool' = NoTool
    /\ UNCHANGED <<invocations, requests, env, login_attempts, now, API_TOKENS_USED, toolCalls, fails>>

\* agent.py:262-263: a model call of the executor raises
executor_raise(e) ==
    /\ pc = "agent"
    /\ calls' = AddCalls(calls, 1, 0, 0, 0, 0)
    /\ resp' = AgentResp(500, "error", e)
    /\ pc' = "idle"
    /\ tool' = NoTool
    /\ UNCHANGED <<invocations, requests, env, login_attempts, now, API_TOKENS_USED, toolCalls, fails>>

\* ------------------------------------------------------------------------
\* Agent requests handled concurrently (the server of agent.py:265 handles
\* each request in a thread of its own).  invocations[t] is the request of
\* thread t: pc is the line it stands at ("off": no request, "done": it has
\* returned), tmp the value of API_TOKENS_USED it has loaded for a +=, cost
\* the words to add.  seen, storesAtCheck, usedAtCall, llm and stores are
\* history: the counter read by the check of line 171, the number of cost
\* recordings made by then, the counter when line 182 issued its call, the
\* completion calls issued and the costs recorded by the thread.
\* ------------------------------------------------------------------------
Threads == 1..NThreads

NoInvocation ==
    [pc |-> "off", tmp |-> 0, cost |-> 0, seen |-> NoTime, storesAtCheck |-> 0,
     usedAtCall |-> NoTime, llm |-> 0, stores |-> 0]

RECURSIVE StoresOf(_, _)
StoresOf(inv, n) == IF n = 0 THEN 0 ELSE inv[n].stores + StoresOf(inv, n - 1)

\* agent.py:241-243: the dispatcher's check
agent_check(t) ==
    /\ invocations[t].pc = "L242"
    /\ invocations' = [invocations EXCEPT ![t].pc =
            IF check_api_limit(API_TOKENS_USED) THEN "done" ELSE "L171"]
    /\ UNCHANGED <<env, login_attempts, now, API_TOKENS_USED, pc, toolCalls,
                   resp, calls, tool, fails, requests>>

\* agent.py:171-172: the tool's check
tool_check(t) ==
    /\ invocations[t].pc = "L171"
    /\ invocations' = [invocations EXCEPT
            ![t].pc = IF check_api_limit(API_TOKENS_USED) THEN "done" ELSE "L175",
            ![t].seen = API_TOKENS_USED,
            ![t].storesAtCheck = StoresOf(invocations, NThreads)]
    /\ UNCHANGED <<env, login_attempts, now, API_TOKENS_USED, pc, toolCalls,
                   resp, calls, tool, fails, requests>>

\* agent.py:175-178
tool_create(t, outcome, e) ==
    /\ invocations[t].pc = "L175"
    /\ LET r == create_github_repo_and_clone(<<"shop">>, outcome, e) IN
       invocations' = [invocations EXCEPT ![t].pc =
            IF In("Error", r.ret) THEN "done" ELSE "L182"]
    /\ UNCHANGED <<env, login_attempts, now, API_TOKENS_USED, pc, toolCalls,
                   resp, calls, tool, fails, requests>>

\* Mutant of language_call: the limit is checked again right before the
\* call.
language_call_Recheck(t, lang) ==
    /\ invocations[t].pc = "L182"
    /\ invocations' = [invocations EXCEPT ![t] =
            IF check_api_limit(API_TOKENS_USED)
            THEN [@ EXCEPT !.pc = "done"]
            ELSE IF lang.raised
            THEN [@ EXCEPT !.pc = "done", !.llm = @ + 1,
                           !.usedAtCall = API_TOKENS_USED]
            ELSE [@ EXCEPT !.pc = "L183", !.llm = @ + 1,
                           !.usedAtCall = API_TOKENS_USED,
                           !.cost = WordCount(lang.content) + LanguagePromptWords(Goal)]]
    /\ UNCHANGED <<env, login_attempts, now, API_TOKENS_USED, pc, toolCalls,
                   resp, calls, tool, fails, requests>>

\* agent.py:182, and 197-198 when llm.invoke raises
language_call(t, lang) ==
    /\ invocations[t].pc = "L182"
    /\ invocations' = [invocations EXCEPT ![t] =
            IF lang.raised
            THEN [@ EXCEPT !.pc = "done", !.llm = @ + 1,
                           !.usedAtCall = API_TOKENS_USED]
            ELSE [@ EXCEPT !.pc = "L183", !.llm = @ + 1,
                           !.usedAtCall = API_TOKENS_USED,
                           !.cost = WordCount(lang.content) + LanguagePromptWords(Goal)]]
    /\ UNCHANGED <<env, login_attempts, now, API_TOKENS_USED, pc, toolCalls,
                   resp, calls, tool, fails, requests>>

\* API_TOKENS_USED += ... (agent.py:183, 116): the global is loaded first,
record_load(t) ==
    /\ invocations[t].pc \in {"L183", "L116"}
    /\ invocations' = [invocations EXCEPT
            ![t].tmp = API_TOKENS_USED,
            ![t].pc = IF invocations[t].pc = "L183" THEN "L183store" ELSE "L116store"]
    /\ UNCHANGED <<env, login_attempts, now, API_TOKENS_USED, pc, toolCalls,
                   resp, calls, tool, fails, requests>>

\* and the sum is stored once the right-hand side was computed.  After
\* line 116 the rest of the pipeline (lines 118-195) leaves the counter alone.
record_store(t) ==
    /\ invocations[t].pc \in {"L183store", "L116store"}
    /\ API_TOKENS_USED' = RecordCost(invocations[t].tmp, invocations[t].cost)
    /\ invocations' = [invocations EXCEPT
            ![t].stores = @ + 1,
            ![t].pc = IF invocations[t].pc = "L183store" THEN "L86" ELSE "done"]
    /\ UNCHANGED <<env, login_attempts, now, pc, toolCalls,
                   resp, calls, tool, fails, requests>>

\* agent.py:86-87
generate_check(t) ==
    /\ invocations[t].pc = "L86"
    /\ invocations' = [invocations EXCEPT ![t].pc =
            IF check_api_limit(API_TOKENS_USED) THEN "done" ELSE "L115"]
    /\ UNCHANGED <<env, login_attempts, now, API_TOKENS_USED, pc, toolCalls,
                   resp, calls, tool, fails, requests>>

\* agent.py:115, and 133-134 when llm.invoke raises
generate_call(t, gen) ==
    /\ invocations[t].pc = "L115"
    /\ invocations' = [invocations EXCEPT ![t] =
            IF gen.raised
            THEN [@ EXCEPT !.pc = "done", !.llm = @ + 1]
            ELSE [@ EXCEPT !.pc = "L116", !.llm = @ + 1,
                           !.cost = WordCount(gen.content)]]
    /\ UNCHANGED <<env, login_attempts, now, API_TOKENS_USED, pc, toolCalls,
                   resp, calls, tool, fails, requests>>

\* ------------------------------------------------------------------------
\* Login requests from one identity handled concurrently, one step per
\* access to login_attempts (agent.py:212-226).  requests[t] is the request
\* of thread t: pc is the line it stands at, cooldown_end_time its local of
\* line 213, tmp the count it has read for the += of line 223, ref tells
\* whether the record it has read the count from is still the one in the
\* table, status is its answer (0: none yet).
\* ------------------------------------------------------------------------
RaceIp == "10.0.0.1"

NoRequest ==
    [pc |-> "off", cooldown_end_time |-> NoTime, tmp |-> 0, ref |-> "-", status |-> 0]

Answer(t, status) == [requests EXCEPT ![t].pc = "done", ![t].status = status]

\* 401 answers since the last 200, as the answers are sent
Answered(status) ==
    CASE status = 200 -> [fails EXCEPT ![RaceIp] = 0]
      [] status = 401 -> [fails EXCEPT ![RaceIp] = @ + 1]
      [] OTHER        -> fails

\* agent.py:212   if ip_address in login_attempts
login_L212(t) ==
    /\ requests[t].pc = "L212"
    /\ requests' = [requests EXCEPT ![t].pc =
            IF RaceIp \in DOMAIN login_attempts THEN "L213" ELSE "L217"]
    /\ UNCHANGED <<env, login_attempts, now, API_TOKENS_USED, pc, toolCalls,
                   resp, calls, tool, fails, invocations>>

\* agent.py:213   login_attempts[ip_address].get("cooldown_until"); a
\* missing key raises KeyError, answered 500 by lines 228-229
login_L213(t) ==
    /\ requests[t].pc = "L213"
    /\ IF RaceIp \in DOMAIN login_attempts
       THEN /\ requests' = [requests EXCEPT
                   ![t].pc = "L214",
                   ![t].cooldown_end_time = login_attempts[RaceIp].cooldown_until]
            /\ UNCHANGED fails
       ELSE /\ requests' = Answer(t, 500)
            /\ fails' = Answered(500)
    /\ UNCHANGED <<env, login_attempts, now, API_TOKENS_USED, pc, toolCalls,
                   resp, calls, tool, invocations>>

\* agent.py:214-215
login_L214(t) ==
    /\ requests[t].pc = "L214"
    /\ IF requests[t].cooldown_end_time # NoTime /\ now < requests[t].cooldown_end_time
       THEN /\ requests' = Answer(t, 429)
            /\ fails' = Answered(429)
       ELSE /\ requests' = [requests EXCEPT ![t].pc = "L217"]
            /\ UNCHANGED fails
    /\ UNCHANGED <<env, login_attempts, now, API_TOKENS_USED, pc, toolCalls,
                   resp, calls, tool, invocations>>

\* agent.py:217
login_L217(t, password_attempt) ==
    /\ requests[t].pc = "L217"
    /\ requests' = [requests EXCEPT ![t].pc =
            IF PasswordMatches(password_attempt) THEN "L218" ELSE "L222"]
    /\ UNCHANGED <<env, login_attempts, now, API_TOKENS_USED, pc, toolCalls,
                   resp, calls, tool, fails, invocations>>

\* agent.py:218, and 220 when there is no record
login_L218(t) ==
    /\ requests[t].pc = "L218"
    /\ IF RaceIp \in DOMAIN login_attempts
       THEN /\ requests' = [requests EXCEPT ![t].pc = "L219"]
            /\ UNCHANGED fails
       ELSE /\ requests' = Answer(t, 200)
            /\ fails' = Answered(200)
    /\ UNCHANGED <<env, login_attempts, now, API_TOKENS_USED, pc, toolCalls,
                   resp, calls, tool, invocations>>

\* agent.py:219-220   del login_attempts[ip_address]; a request that has
\* read the count of the deleted record keeps that record, no longer in
\* the table
login_L219(t) ==
    /\ requests[t].pc = "L219"
    /\ IF RaceIp \in DOMAIN login_attempts
       THEN /\ login_attempts' = ClearRecord(login_attempts, RaceIp)
            /\ requests' = [u \in Threads |->
                   IF u = t THEN [requests[t] EXCEPT !.pc = "done", !.status = 200]
                   ELSE IF requests[u].ref = "table"
                   THEN [requests[u] EXCEPT !.ref = "orphan"]
                   ELSE requests[u]]
            /\ fails' = Answered(200)
       ELSE /\ requests' = Answer(t, 500)
            /\ fails' = Answered(500)
            /\ UNCHANGED login_attempts
    /\ UNCHANGED <<env, now, API_TOKENS_USED, pc, toolCalls,
                   resp, calls, tool, invocations>>

\* agent.py:222   setdefault
login_L222(t) ==
    /\ requests[t].pc = "L222"
    /\ login_attempts' =
            IF RaceIp \in DOMAIN login_attempts
            THEN login_attempts
            ELSE login_attempts @@ (RaceIp :> [count |-> 0, cooldown_until |-> NoTime])
    /\ requests' = [requests EXCEPT ![t].pc = "L223"]
    /\ UNCHANGED <<env, now, API_TOKENS_USED, pc, toolCalls,
                   resp, calls, tool, fails, invocations>>

\* agent.py:223   login_attempts[ip_address]["count"] += 1: the record is
\* looked up and its count read,
login_L223(t) ==
    /\ requests[t].pc = "L223"
    /\ IF RaceIp \in DOMAIN login_attempts
       THEN /\ requests' = [requests EXCEPT
                   ![t].pc = "L223store", ![t].ref = "table",
                   ![t].tmp = login_attempts[RaceIp].count]
            /\ UNCHANGED fails
       ELSE /\ requests' = Answer(t, 500)
            /\ fails' = Answered(500)
    /\ UNCHANGED <<env, login_attempts, now, API_TOKENS_USED, pc, toolCalls,
                   resp, calls, tool, invocations>>

\* then the count plus one is stored into the record that was looked up
login_L223store(t) ==
    /\ requests[t].pc = "L223store"
    /\ login_attempts' =
            IF requests[t].ref = "table"
            THEN [login_attempts EXCEPT ![RaceIp].count = requests[t].tmp + 1]
            ELSE login_attempts
    /\ requests' = [requests EXCEPT ![t].pc = "L224", ![t].ref = "-"]
    /\ UNCHANGED <<env, now, API_TOKENS_USED, pc, toolCalls,
                   resp, calls, tool, fails, invocations>>

\* agent.py:224, and 226 below the threshold
login_L224(t) ==
    /\ requests[t].pc = "L224"
    /\ IF RaceIp \notin DOMAIN login_attempts
       THEN /\ requests' = Answer(t, 500)
            /\ fails' = Answered(500)
       ELSE IF login_attempts[RaceIp].count >= MAX_ATTEMPTS
       THEN /\ requests' = [requests EXCEPT ![t].pc = "L225"]
            /\ UNCHANGED fails
       ELSE /\ requests' = Answer(t, 401)
            /\ fails' = Answered(401)
    /\ UNCHANGED <<env, login_attempts, now, API_TOKENS_USED, pc, toolCalls,
                   resp, calls, tool, invocations>>

\* agent.py:225-226
login_L225(t) ==
    /\ requests[t].pc = "L225"
    /\ IF RaceIp \in DOMAIN login_attempts
       THEN /\ login_attempts' = [login_attempts EXCEPT
                   ![RaceIp].cooldown_until = now + COOLDOWN_PERIOD_MINUTES]
            /\ requests' = Answer(t, 401)
            /\ fails' = Answered(401)
       ELSE /\ requests' = Answer(t, 500)
            /\ fails' = Answered(500)
            /\ UNCHANGED login_attempts
    /\ UNCHANGED <<env, now, API_TOKENS_USED, pc, toolCalls,
                   resp, calls, tool, invocations>>

\* ------------------------------------------------------------------------
\* Specifications
\* ------------------------------------------------------------------------
Init ==
    /\ env \in [WEBSITE_PASSWORD : {"secret", None}, GITHUB_TOKEN : {"ghp_token", None}]
    /\ login_attempts = <<>>
    /\ now = 0
    /\ API_TOKENS_USED = 0
    /\ pc = "idle"
    /\ toolCalls = 0
    /\ resp = [endpoint |-> "none", ip |-> "-", status |-> 0, key |-> "-", text |-> <<>>]
    /\ calls = NoCalls
    /\ tool = NoTool
    /\ fails = [i \in Identities |-> 0]
    /\ invocations = [t \in Threads |-> NoInvocation]
    /\ requests = [t \in Threads |-> NoRequest]

Login == \E ip \in Identities, data \in LoginBodies, d \in 0..1 : login_endpoint(ip, data, d)
Agent == \E data \in AgentBodies, chat \in ChatOutcomes : agent_endpoint(data, chat)
ToolCall == \E name \in ProjectNames : manage_full_stack_project(name)
Create == \E outcome \in {"ok", "repo_fails", "clone_fails"}, e \in ExcTexts : manage_create(outcome, e)
Language == \E lang \in LangOutcomes : manage_language(lang)
Generate == \E gen \in GenOutcomes, failAt \in 0..2, e \in ExcTexts : manage_generate(gen, failAt, e)
Commit == \E failStep \in CommitFailSteps, e \in ExcTexts : manage_commit(failStep, e)
Finish == \E output \in AgentOutputs : executor_finish(output)
Raise == \E e \in ExcTexts : executor_raise(e)

NextLogin == Login \/ Tick
NextAgent == Agent \/ ToolCall \/ Create \/ Language \/ Generate \/ Commit \/ Finish \/ Raise

\* The login endpoint: requests to /api/login handled one at a time.
InitLogin == Init /\ env.GITHUB_TOKEN = None
SpecLogin == InitLogin /\ [][NextLogin]_vars

\* The agent endpoint: requests to /api/agent handled one at a time.
InitAgent == Init /\ env.WEBSITE_PASSWORD = "secret"
SpecAgent == InitAgent /\ [][NextAgent]_vars

\* generate_and_write_code on its own: the pipeline stands at line 186,
\* after the repository was cloned and the language chosen, and the model
\* answers with any reply of BlockOutcomes.
InitWrite ==
    /\ env = [WEBSITE_PASSWORD |-> "secret", GITHUB_TOKEN |-> "ghp_token"]
    /\ login_attempts = <<>>
    /\ now = 0
    /\ \E lang \in LangReplies :
         /\ API_TOKENS_USED =
                RecordCost(0, WordCount(lang) + LanguagePromptWords(Goal))
         /\ tool = [NoTool EXCEPT
                      !.project_name = <<"shop">>,
                      !.repo_path = MsgCloned(OsPathJoin(Cwd, <<"shop">>)),
                      !.language_and_stack = Strip(lang),
                      !.created = "ok"]
    /\ pc = "generate"
    /\ toolCalls = 1
    /\ resp = [endpoint |-> "none", ip |-> "-", status |-> 0, key |-> "-", text |-> <<>>]
    /\ calls = AddCalls(NoCalls, 2, 1, 1, 0, 0)
    /\ fails = [i \in Identities |-> 0]
    /\ invocations = [t \in Threads |-> NoInvocation]
    /\ requests = [t \in Threads |-> NoRequest]

GenerateBlocks ==
    \E gen \in BlockOutcomes, failAt \in 0..2, e \in ExcTexts :
        manage_generate(gen, failAt, e)

NextWrite == GenerateBlocks
SpecWrite == InitWrite /\ [][NextWrite]_vars

\* Two agent requests that arrive together in a fresh process.
InitBudgetRace ==
    /\ env = [WEBSITE_PASSWORD |-> "secret", GITHUB_TOKEN |-> "ghp_token"]
    /\ login_attempts = <<>>
    /\ now = 0
    /\ API_TOKENS_USED = 0
    /\ pc = "idle"
    /\ toolCalls = 0
    /\ resp = [endpoint |-> "none", ip |-> "-", status |-> 0, key |-> "-", text |-> <<>>]
    /\ calls = NoCalls
    /\ tool = NoTool
    /\ fails = [i \in Identities |-> 0]
    /\ invocations = [t \in Threads |-> [NoInvocation EXCEPT !.pc = "L242"]]
    /\ requests = [t \in Threads |-> NoRequest]

AgentCheck == \E t \in Threads : agent_check(t)
ToolCheck == \E t \in Threads : tool_check(t)
ToolCreate ==
    \E t \in Threads, outcome \in {"ok", "repo_fails", "clone_fails"}, e \in ExcTexts :
        tool_create(t, outcome, e)
LanguageCall == \E t \in Threads, lang \in LangOutcomes : language_call(t, lang)
RecordLoad == \E t \in Threads : record_load(t)
RecordStore == \E t \in Threads : record_store(t)
GenerateCheck == \E t \in Threads : generate_check(t)
GenerateCall == \E t \in Threads, gen \in GenOutcomes : generate_call(t, gen)

NextBudgetRace ==
    \/ AgentCheck \/ ToolCheck \/ ToolCreate \/ LanguageCall
    \/ RecordLoad \/ RecordStore \/ GenerateCheck \/ GenerateCall
SpecBudgetRace == InitBudgetRace /\ [][NextBudgetRace]_vars

\* Login requests from one identity that arrive together, after no
\* failure or after four.
InitLoginRace ==
    /\ env = [WEBSITE_PASSWORD |-> "secret", GITHUB_TOKEN |-> None]
    /\ \E before \in {0, MAX_ATTEMPTS - 1} :
         /\ login_attempts =
              IF before = 0 THEN <<>>
              ELSE (RaceIp :> [count |-> before, cooldown_until |-> NoTime])
         /\ fails = [i \in Identities |-> IF i = RaceIp THEN before ELSE 0]
    /\ now = 0
    /\ API_TOKENS_USED = 0
    /\ pc = "idle"
    /\ toolCalls = 0
    /\ resp = [endpoint |-> "none", ip |-> "-", status |-> 0, key |-> "-", text |-> <<>>]
    /\ calls = NoCalls
    /\ tool = NoTool
    /\ invocations = [t \in Threads |-> NoInvocation]
    /\ requests = [t \in Threads |-> [NoRequest EXCEPT !.pc = "L212"]]

LoginL212 == \E t \in Threads : login_L212(t)
LoginL213 == \E t \in Threads : login_L213(t)
LoginL214 == \E t \in Threads : login_L214(t)
LoginL217 == \E t \in Threads, p \in Passwords : login_L217(t, p)
LoginL218 == \E t \in Threads : login_L218(t)
LoginL219 == \E t \in Threads : login_L219(t)
LoginL222 == \E t \in Threads : login_L222(t)
LoginL223 == \E t \in Threads : login_L223(t)
LoginL223store == \E t \in Threads : login_L223store(t)
LoginL224 == \E t \in Threads : login_L224(t)
LoginL225 == \E t \in Threads : login_L225(t)

NextLoginRace ==
    \/ LoginL212 \/ LoginL213 \/ LoginL214 \/ LoginL217 \/ LoginL218
    \/ LoginL219 \/ LoginL222 \/ LoginL223 \/ LoginL223store \/ LoginL224
    \/ LoginL225
SpecLoginRace == InitLoginRace /\ [][NextLoginRace]_vars

\* ------------------------------------------------------------------------
\* Properties of the login throttle (checked under SpecLogin)
\* ------------------------------------------------------------------------

\* A login_endpoint step from identity ip with a JSON object body
LoginStep(ip, data) == data.object /\ \E d \in 0..1 : login_endpoint(ip, data, d)

\* C1: from an identity without a record, wrong passwords with no success
\* in between: the 1st to 4th failure are answered 401 and leave
\* cooldown_until unset, the 5th is answered 401 and sets cooldown_until to
\* now + 5 minutes, and a 6th attempt before that time is answered 429.
\* fails[ip] counts the failures answered so far.
C1_FifthFailureStartsCooldown ==
    [][\A ip \in Identities, data \in LoginBodies :
         (LoginStep(ip, data) /\ data.password # env.WEBSITE_PASSWORD) =>
            /\ fails[ip] < 4 =>
                 /\ resp'.status = 401
                 /\ login_attempts'[ip].cooldown_until = NoTime
            /\ fails[ip] = 4 =>
                 /\ resp'.status = 401
                 /\ login_attempts'[ip].cooldown_until = now' + 5
            /\ (fails[ip] = 5 /\ now < login_attempts[ip].cooldown_until) =>
                 /\ resp'.status = 429
                 /\ login_attempts' = login_attempts
      ]_vars

\* C1 witness: a 6th attempt answered 429 after exactly five failures
C1_Witness ==
    \E ip \in Identities :
        /\ fails[ip] = 5
        /\ resp.endpoint = "login" /\ resp.ip = ip /\ resp.status = 429
        /\ ip \in DOMAIN login_attempts
        /\ now < login_attempts[ip].cooldown_until

\* C2: while an identity's cooldown_until is set and in the future, every
\* login from it is answered 429, whether the password is right or wrong.
C2_CooldownRejectsAll ==
    [][\A ip \in Identities, data \in LoginBodies :
         ( /\ LoginStep(ip, data)
           /\ ip \in DOMAIN login_attempts
           /\ login_attempts[ip].cooldown_until # NoTime
           /\ now < login_attempts[ip].cooldown_until ) =>
            /\ resp'.endpoint = "login" /\ resp'.ip = ip
            /\ resp'.status = 429
      ]_vars

\* C2 witness: an identity in cooldown has just been answered 429, its
\* record being the one the fifth failure left
C2_Witness ==
    \E ip \in Identities :
        /\ resp.endpoint = "login" /\ resp.ip = ip /\ resp.status = 429
        /\ ip \in DOMAIN login_attempts
        /\ login_attempts[ip].cooldown_until # NoTime
        /\ now > 0 /\ now < login_attempts[ip].cooldown_until

\* C3: after a 200 the identity has no entry in login_attempts, and the
\* count of every entry is the number of failures since the identity's last
\* success, so that a cooldown is only ever set after five of them.
C3_SuccessClearsRecord ==
    /\ (resp.endpoint = "login" /\ resp.status = 200) =>
            resp.ip \notin DOMAIN login_attempts
    /\ \A ip \in Identities :
         IF ip \in DOMAIN login_attempts
         THEN /\ login_attempts[ip].count = fails[ip]
              /\ login_attempts[ip].cooldown_until # NoTime => fails[ip] >= 5
         ELSE fails[ip] = 0

\* C3 witness: a success has just been answered while the other identity
\* still holds the record of its failures
C3_Witness ==
    \E ip \in Identities :
        /\ resp.endpoint = "login" /\ resp.ip = ip /\ resp.status = 200
        /\ ip \notin DOMAIN login_attempts
        /\ now >= 5
        /\ \E other \in DOMAIN login_attempts : login_attempts[other].count >= 5

\* C16: once a cooldown has expired the record is still there with its
\* count and blocks nothing: a wrong password is answered 401, takes the
\* count beyond 5 and starts a new cooldown of 5 minutes at once, a right
\* password is answered 200; and no step lowers or removes a count except
\* a login answered 200.
C16_ExpiredCooldown ==
    [][/\ \A ip \in Identities, data \in LoginBodies :
            ( /\ pc = "idle"
              /\ ip \in DOMAIN login_attempts
              /\ login_attempts[ip].cooldown_until # NoTime
              /\ now >= login_attempts[ip].cooldown_until
              /\ LoginStep(ip, data) ) =>
               IF data.password = env.WEBSITE_PASSWORD
               THEN resp'.status = 200 /\ resp'.ip = ip
               ELSE /\ resp'.status = 401 /\ resp'.ip = ip
                    /\ login_attempts'[ip].count = login_attempts[ip].count + 1
                    /\ login_attempts'[ip].count > 5
                    /\ login_attempts'[ip].cooldown_until = now' + 5
       /\ \A ip \in DOMAIN login_attempts :
            ( \/ ip \notin DOMAIN login_attempts'
              \/ login_attempts'[ip].count < login_attempts[ip].count ) =>
               /\ resp'.endpoint = "login" /\ resp'.ip = ip /\ resp'.status = 200
               /\ ip \notin DOMAIN login_attempts'
      ]_vars

\* C16 witness: the sixth failure, made after the first cooldown ran out,
\* has been answered 401 and has started a second cooldown
C16_Witness ==
    \E ip \in Identities :
        /\ resp.endpoint = "login" /\ resp.ip = ip /\ resp.status = 401
        /\ ip \in DOMAIN login_attempts
        /\ login_attempts[ip].count = 6
        /\ login_attempts[ip].cooldown_until = now + 5
        /\ now >= 5

\* C17: a login answered 429 leaves login_attempts as it was: no count is
\* incremented and no cooldown_until is moved.
C17_RejectedLeavesTable ==
    [][\A ip \in Identities, data \in LoginBodies :
         ( /\ pc = "idle"
           /\ LoginStep(ip, data)
           /\ resp'.status = 429 ) =>
            login_attempts' = login_attempts
      ]_vars

\* C17 witness: an attempt is refused two minutes or more into a cooldown
\* that still ends when the fifth failure said it would
C17_Witness ==
    \E ip \in Identities :
        /\ resp.endpoint = "login" /\ resp.ip = ip /\ resp.status = 429
        /\ ip \in DOMAIN login_attempts
        /\ login_attempts[ip].count = 5
        /\ now >= 2
        /\ login_attempts[ip].cooldown_until <= 6
        /\ now < login_attempts[ip].cooldown_until

\* C19: every record in login_attempts has count >= 1, and has
\* cooldown_until set exactly when its count is at least MAX_ATTEMPTS (5).
C19_RecordShape ==
    \A ip \in DOMAIN login_attempts :
        /\ login_attempts[ip].count >= 1
        /\ login_attempts[ip].cooldown_until # NoTime
              <=> login_attempts[ip].count >= 5

\* C19 witness: one record below the threshold without a cooldown beside
\* one at the threshold with a cooldown
C19_Witness ==
    \E ip, other \in DOMAIN login_attempts :
        /\ login_attempts[ip].count \in 1..4
        /\ login_attempts[ip].cooldown_until = NoTime
        /\ login_attempts[other].count >= 5
        /\ login_attempts[other].cooldown_until # NoTime

\* ------------------------------------------------------------------------
\* Properties of the budget, the dispatcher and the pipeline (checked under
\* SpecAgent)
\* ------------------------------------------------------------------------

\* An agent_endpoint step with a JSON object body
AgentStep(data) == pc = "idle" /\ data.object /\ \E chat \in ChatOutcomes : agent_endpoint(data, chat)
HasPrompt(data) == data.has_prompt /\ data.prompt # <<>>

\* C4: no step decreases API_TOKENS_USED, so that once the counter has
\* reached MAX_API_TOKENS, check_api_limit() is true in every later state.
C4_BudgetMonotone ==
    [][/\ API_TOKENS_USED' >= API_TOKENS_USED
       /\ API_TOKENS_USED >= MAX_API_TOKENS => API_TOKENS_USED' >= MAX_API_TOKENS
      ]_vars

\* C4 witness: the limit was reached and a later request has been refused
C4_Witness ==
    /\ API_TOKENS_USED >= MAX_API_TOKENS
    /\ pc = "idle"
    /\ resp.text = MsgApology

\* C5: with the budget used up, an "agent" request with a prompt is
\* answered 200 with the fixed apology, no provider is called, the executor
\* is not started and API_TOKENS_USED is unchanged.
C5_ExhaustedAgentApology ==
    [][\A data \in AgentBodies :
         ( /\ API_TOKENS_USED >= MAX_API_TOKENS
           /\ HasPrompt(data) /\ data.mode = "agent"
           /\ AgentStep(data) ) =>
            /\ resp' = AgentResp(200, "response", MsgApology)
            /\ calls' = NoCalls
            /\ pc' = "idle"
            /\ API_TOKENS_USED' = API_TOKENS_USED
      ]_vars

\* C5 witness: the apology has been sent with the counter over the limit
C5_Witness ==
    /\ resp = AgentResp(200, "response", MsgApology)
    /\ calls = NoCalls
    /\ API_TOKENS_USED >= MAX_API_TOKENS

\* C6: a "chat" request with a prompt makes exactly one completion call and
\* no other provider call, whatever the budget, changes neither
\* API_TOKENS_USED nor login_attempts, and answers 200 with the text the
\* call returned, unchanged (500 with the error text if the call raised).
C6_ChatUnmetered ==
    [][\A data \in AgentBodies, chat \in ChatOutcomes :
         ( /\ pc = "idle"
           /\ data.object /\ HasPrompt(data) /\ data.mode = "chat"
           /\ agent_endpoint(data, chat) ) =>
            /\ calls' = [llm |-> 1, create_repo |-> 0, clone |-> 0,
                         commit |-> 0, push |-> 0]
            /\ pc' = "idle"
            /\ API_TOKENS_USED' = API_TOKENS_USED
            /\ login_attempts' = login_attempts
            /\ ~chat.raised => resp' = AgentResp(200, "response", chat.content)
            /\ chat.raised => resp' = AgentResp(500, "error", chat.error)
      ]_vars

\* C6 witness: a chat reply has been relayed with the counter over the limit
C6_Witness ==
    /\ resp.endpoint = "agent" /\ resp.status = 200 /\ resp.key = "response"
    /\ resp.text \in ChatReplies
    /\ calls.llm = 1
    /\ API_TOKENS_USED >= MAX_API_TOKENS

\* C7: a request without a prompt, or with an empty one, is answered 400
\* "Prompt is required." for every mode and budget, no provider is called
\* and API_TOKENS_USED is unchanged.
C7_PromptRequired ==
    [][\A data \in AgentBodies :
         (~HasPrompt(data) /\ AgentStep(data)) =>
            /\ resp' = AgentResp(400, "error", <<"Prompt is required.">>)
            /\ calls' = NoCalls
            /\ pc' = "idle"
            /\ API_TOKENS_USED' = API_TOKENS_USED
      ]_vars

\* C7 witness: the 400 has been sent with the counter over the limit
C7_Witness ==
    /\ resp = AgentResp(400, "error", <<"Prompt is required.">>)
    /\ calls = NoCalls
    /\ API_TOKENS_USED >= MAX_API_TOKENS

\* C8: when the generation reply holds no block that matches file_regex,
\* generate_and_write_code writes no file and returns the parse-failure
\* message, manage_full_stack_project returns that message, and
\* commit_and_push is not invoked in that invocation.
C8_NoBlocksStopsPipeline ==
    [][/\ \A gen \in GenOutcomes, failAt \in 0..2, e \in ExcTexts :
            ( /\ pc = "generate"
              /\ API_TOKENS_USED < MAX_API_TOKENS
              /\ ~gen.raised /\ FindAll(gen.content) = <<>>
              /\ manage_generate(gen, failAt, e) ) =>
               /\ tool'.generated = "noparse"
               /\ tool'.written = <<>>
               /\ tool'.write_status = MsgNoParse
               /\ tool'.ret = tool'.write_status
               /\ pc' = "agent"
       /\ tool'.generated = "noparse" =>
               /\ tool'.committed = "-"
               /\ tool'.ret = MsgNoParse
               /\ pc' # "commit"
      ]_vars

\* C8 witness: an invocation has returned the parse-failure message
C8_Witness ==
    /\ pc = "agent"
    /\ tool.generated = "noparse"
    /\ tool.ret = MsgNoParse
    /\ tool.written = <<>>
    /\ tool.committed = "-"

\* C9: commit_and_push is invoked only after generate_and_write_code wrote
\* at least one parsed file, and the "successfully created" message is
\* returned only if creation, generation and commit/push all succeeded.
C9_ShortCircuit ==
    /\ tool.committed # "-" =>
            (tool.generated = "written" /\ Len(tool.written) >= 1)
    /\ tool.ret = MsgSuccess(tool.project_name, tool.language_and_stack) =>
            /\ tool.created = "ok"
            /\ tool.generated = "written"
            /\ tool.committed = "ok"

\* C10: the string a pipeline step returns contains "Error" if and only if
\* the step failed.
C10_ErrorMarkerIffFailed ==
    /\ tool.created # "-" =>
            (In("Error", tool.repo_path) <=> tool.created = "failed")
    /\ tool.generated # "-" =>
            (In("Error", tool.write_status) <=> tool.generated # "written")
    /\ tool.committed # "-" =>
            (In("Error", tool.commit_status) <=> tool.committed = "failed")

\* C18: every answer of agent_endpoint is one of the three documented
\* ones: 200 with a "response" string, 400 with the error "Prompt is
\* required.", or 500 with an "error" string, whatever the mode.
C18_DocumentedResponses ==
    resp.endpoint = "agent" =>
        \/ resp.status = 200 /\ resp.key = "response"
        \/ resp.status = 400 /\ resp.key = "error" /\ resp.text = MsgPromptRequired
        \/ resp.status = 500 /\ resp.key = "error"

\* ------------------------------------------------------------------------
\* Properties of the block extraction and of the writes (checked under
\* SpecWrite)
\* ------------------------------------------------------------------------

\* file lies inside directory dir
Inside(file, dir) ==
    LET f == RealPath(file)
        d == RealPath(dir)
    IN  Len(f) > Len(d) /\ SubSeq(f, 1, Len(d)) = d

\* C11: every file that generate_and_write_code writes lies inside
\* repo_path, whatever paths the reply names (absolute ones and ones with
\* '..' included).
C11_WritesStayInside ==
    \A k \in DOMAIN tool.written : Inside(tool.written[k].path, tool.repo_path)

\* The blocks a reply is made of, when it is a concatenation of blocks
RECURSIVE Parts(_)
Parts(s) ==
    IF s = <<>> THEN [ok |-> TRUE, blocks |-> <<>>]
    ELSE LET cands == {b \in Blocks :
                          /\ Len(BlockText(b)) <= Len(s)
                          /\ SubSeq(s, 1, Len(BlockText(b))) = BlockText(b)}
         IN  IF cands = {} THEN [ok |-> FALSE, blocks |-> <<>>]
             ELSE LET b == CHOOSE c \in cands : TRUE
                      rest == Parts(SubSeq(s, Len(BlockText(b)) + 1, Len(s)))
                  IN  [ok |-> rest.ok, blocks |-> <<b>> \o rest.blocks]

\* C12: a reply without a matching block gives no entry; a reply made of N
\* well-formed blocks gives exactly N entries in the order of the reply,
\* each with its block's path and, as content, its block's body without
\* the white space around it and with the white space inside it unchanged.
C12_BlockExtraction ==
    /\ tool.generated_content \in {s \in GenReplies : ~In(Hash3, s)} \cup {<<>>}
         => tool.written = <<>>
    /\ tool.generated = "noparse" => tool.written = <<>>
    /\ LET parts == Parts(tool.generated_content) IN
       (tool.generated \in {"noparse", "written"} /\ parts.ok) =>
           /\ Len(tool.written) = Len(parts.blocks)
           /\ \A k \in DOMAIN tool.written :
                /\ tool.written[k].path =
                      OsPathJoin(tool.repo_path, parts.blocks[k].path)
                /\ tool.written[k].content = parts.blocks[k].core

\* C12 witness: a reply of two blocks, one with white space around and
\* inside its body, has been written
C12_Witness ==
    /\ tool.generated = "written"
    /\ Parts(tool.generated_content).ok
    /\ Len(tool.written) = 2
    /\ tool.written[1].content = <<"b", "\n", " ", "c">>
    /\ tool.written[2].content = <<"a">>

\* C13 as stated: after all entries were written, reading the file of each
\* entry gives that entry's trimmed content.
C13_RoundTripEveryEntry ==
    tool.generated = "written" =>
        \A k \in DOMAIN tool.written :
            FilesAfter(tool.written, Len(tool.written))[RealPath(tool.written[k].path)]
                = tool.written[k].content

\* C13 amended: after all entries were written, reading the file of each
\* entry gives the trimmed content of the last entry that names the same
\* file.
C13_RoundTripLastEntry ==
    tool.generated = "written" =>
        \A k \in DOMAIN tool.written :
            LET same == {j \in DOMAIN tool.written :
                            RealPath(tool.written[j].path) = RealPath(tool.written[k].path)}
                last == CHOOSE j \in same : \A i \in same : i <= j
            IN  FilesAfter(tool.written, Len(tool.written))[RealPath(tool.written[k].path)]
                    = tool.written[last].content

\* C13 witness: two entries with different contents, spelt differently,
\* name the same file, and all entries were written
C13_Witness ==
    /\ tool.generated = "written"
    /\ Len(tool.written) = 2
    /\ tool.written[1].path # tool.written[2].path
    /\ RealPath(tool.written[1].path) = RealPath(tool.written[2].path)
    /\ tool.written[1].content # <<>>
    /\ tool.written[1].content # tool.written[2].content

\* ------------------------------------------------------------------------
\* Properties of concurrent agent requests (checked under SpecBudgetRace)
\* ------------------------------------------------------------------------

\* C14: the check of line 171 is the only one before the completion call
\* of line 182: an invocation between them has seen the counter below the
\* limit, and issues its call whatever the counter holds by then.
C14_CallOnStaleCheck ==
    [][\A t \in Threads :
         /\ invocations[t].pc \in {"L175", "L182"} =>
                invocations[t].seen < MAX_API_TOKENS
         /\ (invocations[t].pc = "L182" /\ invocations'[t].pc # "L182") =>
                invocations'[t].llm = invocations[t].llm + 1
      ]_vars

\* C14 witness: both invocations passed the check before any cost was
\* recorded, the cost recorded by the first took the counter to the limit
\* or past it, and the second issued its completion call after that
C14_Witness ==
    \E a, b \in Threads :
        /\ a # b
        /\ invocations[a].seen < MAX_API_TOKENS /\ invocations[a].seen # NoTime
        /\ invocations[b].seen < MAX_API_TOKENS /\ invocations[b].seen # NoTime
        /\ invocations[a].storesAtCheck = 0 /\ invocations[b].storesAtCheck = 0
        /\ invocations[a].llm >= 1 /\ invocations[a].stores = 1
        /\ invocations[b].llm >= 1 /\ invocations[b].stores = 0
        /\ invocations[b].usedAtCall >= MAX_API_TOKENS

\* ------------------------------------------------------------------------
\* Properties of concurrent login requests (checked under SpecLoginRace,
\* where the clock stands still, so that no cooldown runs out)
\* ------------------------------------------------------------------------

\* C15: concurrent logins of one identity behave as if run one after the
\* other: no more than MAX_ATTEMPTS wrong attempts are answered 401 since
\* the last success, and once every request is answered the record's count
\* is the number of 401 answers since the last success.
C15_Linearizable ==
    /\ fails[RaceIp] <= MAX_ATTEMPTS
    /\ (\A t \in Threads : requests[t].pc = "done") =>
          IF RaceIp \in DOMAIN login_attempts
          THEN login_attempts[RaceIp].count = fails[RaceIp]
          ELSE fails[RaceIp] = 0

\* C20: a login request with a well-formed body is never answered 500,
\* whatever the other requests of its identity do meanwhile.
C20_NoServerError ==
    \A t \in Threads : requests[t].status # 500

====
